---- MODULE Spec2Model ----
(***************************************************************************)
(* Model of src/script.js (class EmergencyContactsApp): the click and key  *)
(* handlers, clipboard copy with its legacy fallback, the toast and its    *)
(* timers, the usage log kept in localStorage and the statistics computed  *)
(* from it.                                                                *)
(*                                                                         *)
(* JavaScript strings are sequences of one-character strings, so that the  *)
(* code's trim(), replace(/[^\d-]/g, '') and the property-key order of     *)
(* Object.entries are computed and not assumed.                            *)
(***************************************************************************)
EXTENDS Integers, Sequences, FiniteSets, TLC

VARIABLES
    toast,          \* the #toast element: textContent, className, display, animation
    toastTimeout,   \* this.toastTimeout: 0 (undefined) or the id of the last 3 s timer
    timers,         \* pending setTimeout callbacks
    nextTimerId,    \* the id the next setTimeout returns
    requests,       \* number of showToast calls so far
    lastHide,       \* the last display = 'none' done by a timer: whose timer, whose message
    pending,        \* texts of the copyToClipboard calls awaiting clipboard.writeText
    started,        \* number of copyToClipboard calls made so far
    lastCall,       \* the copyToClipboard call that ended last
    bodyTextAreas,  \* transient textareas attached to document.body
    lastExtract,    \* the last extractPhoneNumber call: the button and the value returned
    hasToast,       \* document.getElementById('toast') finds an element
    secure,         \* navigator.clipboard && window.isSecureContext
    stored,         \* localStorage item 'emergency_contacts_usage'
    stored0,        \* the item as it was when the page loaded
    events,         \* every event handed to storeUsageData, in order
    now,            \* the clock read by new Date()
    lastStore,      \* the last storeUsageData call: its number and how it ended
    ret             \* what the last getUsageStats call returned

vars == <<toast, toastTimeout, timers, nextTimerId, requests, lastHide, pending,
          started, lastCall, bodyTextAreas, lastExtract, hasToast, secure,
          stored, stored0, events, now, lastStore, ret>>

uiVars == <<toast, toastTimeout, timers, nextTimerId, requests, lastHide, pending,
            started, lastCall, bodyTextAreas, lastExtract>>

envVars == <<hasToast, secure>>

logVars == <<stored, stored0, events, now, lastStore>>

----------------------------------------------------------------------------
(* JavaScript values and strings *)

Null == [t |-> "null", s |-> <<>>]

Str(s) == [t |-> "str", s |-> s]

\* JavaScript truthiness of a string-or-null value
Truthy(v) == v.t = "str" /\ v.s # <<>>

\* a || b
OrElse(a, b) == IF Truthy(a) THEN a ELSE b

Digits == {"0", "1", "2", "3", "4", "5", "6", "7", "8", "9"}

WhiteSpace == {" ", "\n", "\t"}

RECURSIVE TrimStart(_)
TrimStart(s) ==
    IF s # <<>> /\ Head(s) \in WhiteSpace THEN TrimStart(Tail(s)) ELSE s

RECURSIVE TrimEnd(_)
TrimEnd(s) ==
    IF s # <<>> /\ s[Len(s)] \in WhiteSpace
    THEN TrimEnd(SubSeq(s, 1, Len(s) - 1))
    ELSE s

\* String.prototype.trim
Trim(s) == TrimEnd(TrimStart(s))

----------------------------------------------------------------------------
(* The document: elements in document order; parent 0 is document.body. *)

NoData == Null

El(parent, classes, text, href, data) ==
    [parent |-> parent, classes |-> classes, text |-> text,
     href |-> href, data |-> data]

Document ==
    << El(0, {"phone-list"}, <<>>, <<>>, NoData),                          \* 1
       El(1, {"phone-btn"}, <<" ", "1", "0", "0", " ">>, <<>>, NoData),    \* 2
       El(1, {"copy-btn"}, <<>>, <<>>, Str(<<"9">>)),                      \* 3
       El(1, {"phone-btn"}, <<"1", "0", "2", "\n">>, <<>>, NoData),        \* 4
       El(1, {"sep"}, <<>>, <<>>, NoData),                                 \* 5
       El(1, {"copy-btn"}, <<>>, <<>>, Str(<<"9">>)),                      \* 6
       El(1, {"copy-btn"}, <<>>, <<>>, Str(<<"1", "0", "3">>)),            \* 7
       El(1, {"copy-btn"}, <<>>, <<>>, NoData),                            \* 8
       El(0, {"copy-btn"}, <<>>, <<>>, NoData),                            \* 9
       El(0, {"copy-btn"}, <<>>, <<>>, Str(<<>>)),                         \* 10
       El(0, {"phone-btn"}, <<" ", " ">>, <<"t", ":", "1", "0", "1">>, NoData), \* 11
       El(0, {"copy-btn"}, <<>>, <<>>, Str(<<"1", "0", "3">>)),            \* 12
       El(0, {"phone-list"}, <<>>, <<>>, NoData),                          \* 13
       El(13, {"phone-btn"}, <<"1", "0", "1">>, <<>>, NoData),             \* 14
       El(13, {"phone-list"}, <<>>, <<>>, NoData),                         \* 15
       El(15, {"row"}, <<>>, <<>>, NoData),                                \* 16
       El(16, {"phone-btn"}, <<"1", "0", "4">>, <<>>, NoData),             \* 17
       El(15, {"row"}, <<>>, <<>>, NoData),                                \* 18
       El(18, {"copy-btn"}, <<>>, <<>>, Str(<<"9">>)),                     \* 19
       El(0, {"resource-link"}, <<"r">>, <<"/", "a">>, NoData),            \* 20
       El(0, {"phone-btn"}, <<"c", "a", "l", "l", " ", "0", "1", "-", "4">>, <<>>, NoData), \* 21
       El(0, {"phone-btn"}, <<"0", "0", "7">>, <<>>, NoData),              \* 22
       El(0, {"phone-btn"}, <<"4", "2", "9", "4", "9", "6", "7", "2", "9", "5">>, <<>>, NoData), \* 23
       El(0, {"phone-btn"}, <<"1", "0", "3">>, <<>>, NoData),              \* 24
       El(0, {"phone-btn"}, <<"9", "8">>, <<>>, NoData)                    \* 25
    >>

Nodes == 1..Len(Document)

HasClass(n, c) == c \in Document[n].classes

\* element.previousElementSibling: 0 when there is none
PreviousElementSibling(n) ==
    LET before == {m \in Nodes : m < n /\ Document[m].parent = Document[n].parent}
    IN  IF before = {} THEN 0 ELSE CHOOSE m \in before : \A k \in before : k <= m

\* element.closest('.' + c): the element itself or its nearest ancestor; 0 when none
RECURSIVE Closest(_, _)
Closest(n, c) ==
    IF n = 0 THEN 0
    ELSE IF HasClass(n, c) THEN n
    ELSE Closest(Document[n].parent, c)

RECURSIVE IsDescendant(_, _)
IsDescendant(n, root) ==
    IF n = 0 THEN FALSE
    ELSE Document[n].parent = root \/ IsDescendant(Document[n].parent, root)

RECURSIVE InOrder(_)
InOrder(S) ==
    IF S = {} THEN <<>>
    ELSE LET m == CHOOSE x \in S : \A y \in S : x <= y
         IN  <<m>> \o InOrder(S \ {m})

\* root.querySelectorAll('.' + c): the descendants with the class, in document order
QuerySelectorAll(root, c) ==
    InOrder({n \in Nodes : HasClass(n, c) /\ IsDescendant(n, root)})

\* Array.prototype.indexOf, zero-based, -1 when absent
IndexOf(seq, x) ==
    IF \E i \in 1..Len(seq) : seq[i] = x
    THEN (CHOOSE i \in 1..Len(seq) : seq[i] = x /\ \A j \in 1..(i - 1) : seq[j] # x) - 1
    ELSE -1

\* element.textContent of a leaf element
TextContent(n) == Document[n].text

\* extractPhoneNumber with the nearest list container's phone controls indexed by
\* the button's place among all copy controls of the document
extractPhoneNumberByDocumentIndex(copyButton) ==
    LET phoneButton == PreviousElementSibling(copyButton)
        phoneList == Closest(copyButton, "phone-list")
        phoneButtons == QuerySelectorAll(phoneList, "phone-btn")
        copyButtons == QuerySelectorAll(0, "copy-btn")
        copyIndex == IndexOf(copyButtons, copyButton)
    IN  IF phoneButton # 0 /\ HasClass(phoneButton, "phone-btn")
        THEN Str(Trim(TextContent(phoneButton)))
        ELSE IF phoneList # 0 /\ copyIndex + 1 \in 1..Len(phoneButtons)
        THEN Str(Trim(TextContent(phoneButtons[copyIndex + 1])))
        ELSE OrElse(Document[copyButton].data, Null)

\* extractPhoneNumber(copyButton)
extractPhoneNumber(copyButton) ==
    LET phoneButton == PreviousElementSibling(copyButton)
        phoneList == Closest(copyButton, "phone-list")
        phoneButtons == QuerySelectorAll(phoneList, "phone-btn")
        copyButtons == QuerySelectorAll(phoneList, "copy-btn")
        copyIndex == IndexOf(copyButtons, copyButton)
    IN  IF phoneButton # 0 /\ HasClass(phoneButton, "phone-btn")
        THEN Str(Trim(TextContent(phoneButton)))
        ELSE IF phoneList # 0 /\ copyIndex + 1 \in 1..Len(phoneButtons)
        THEN Str(Trim(TextContent(phoneButtons[copyIndex + 1])))
        ELSE OrElse(Document[copyButton].data, Null)

\* this.extractPhoneNumber(e.target) for every copy button of the document
PhoneNumberOf ==
    [n \in Nodes |-> IF HasClass(n, "copy-btn") THEN extractPhoneNumber(n) ELSE Null]

----------------------------------------------------------------------------
(* The toast and its timers *)

\* setTimeout(..., 3000) of showToast
ToastDelay == 3000

\* setTimeout(..., 300) inside the 3 s callback
ExitDelay == 300

\* Longest stretch of time that passes without the model looking at the page
Quantum == 1000

\* Number of copyToClipboard calls in a run
MaxCalls == 2

Msg(kind, text) == [kind |-> kind, text |-> text]

Copied(text) == Msg("copied", text)

NoPhoneFound == Msg("nophone", <<>>)

CopyFailed == Msg("failed", <<>>)

CopyNotSupported == Msg("unsupported", <<>>)

\* The part of the page state that the handlers read and write
Ui == [toast |-> toast, toastTimeout |-> toastTimeout, timers |-> timers,
       nextTimerId |-> nextTimerId, requests |-> requests,
       bodyTextAreas |-> bodyTextAreas]

\* a clearTimeout that cancels nothing
ClearTimeoutLeavesTimer(ts, id) == ts

\* clearTimeout(id): drops the pending callback, if it is still pending
ClearTimeout(ts, id) == {t \in ts : t.id # id}

\* showToast(message, type)
showToast(u, message, type) ==
    IF ~hasToast
    THEN [u EXCEPT !.requests = @ + 1]
    ELSE [u EXCEPT
            !.toast = [text |-> message, className |-> type, display |-> "block",
                       animation |-> "slideInRight", req |-> u.requests + 1],
            !.timers = (IF u.toastTimeout # 0
                        THEN ClearTimeout(u.timers, u.toastTimeout)
                        ELSE u.timers)
                       \cup {[id |-> u.nextTimerId, kind |-> "hide",
                              remaining |-> ToastDelay, req |-> u.requests + 1]},
            !.toastTimeout = u.nextTimerId,
            !.nextTimerId = @ + 1,
            !.requests = @ + 1]

----------------------------------------------------------------------------
(* Clipboard copy *)

\* What the browser does with the transient textarea
FallbackOutcomes ==
    {"appendThrows", "focusThrows", "selectThrows", "copied", "refused", "copyThrows"}

\* the try / catch / finally of fallbackCopyToClipboard, the textarea attached
FallbackTry(u, text, o) ==
    LET told == IF o = "copied" THEN showToast(u, Copied(text), "success")
                ELSE IF o = "refused" THEN showToast(u, CopyFailed, "error")
                ELSE showToast(u, CopyNotSupported, "error")
    IN  [told EXCEPT !.bodyTextAreas = @ - 1]

\* fallbackCopyToClipboard(text): the state after it and whether it threw
fallbackCopyToClipboard(u, text, o) ==
    IF o = "appendThrows"
    THEN [u |-> u, threw |-> TRUE]
    ELSE LET attached == [u EXCEPT !.bodyTextAreas = @ + 1]
         IN  IF o \in {"focusThrows", "selectThrows"}
             THEN [u |-> attached, threw |-> TRUE]
             ELSE [u |-> FallbackTry(attached, text, o), threw |-> FALSE]

\* The record of a copyToClipboard call that has ended
Ended(text, how, u0, u1, paths) ==
    [text |-> text, how |-> how, notified |-> u1.requests - u0.requests,
     className |-> IF u1.requests > u0.requests /\ hasToast
                   THEN u1.toast.className ELSE "",
     paths |-> paths]

NoCall == [text |-> Null, how |-> "none", notified |-> 0, className |-> "", paths |-> {}]

\* the catch block of copyToClipboard: one more fallbackCopyToClipboard, whose
\* exception nothing catches (the promise of the async function is rejected)
CopyCatch(u0, u, text, o, paths) ==
    LET r == fallbackCopyToClipboard(u, text.s, o)
    IN  [u |-> r.u, awaits |-> FALSE,
         call |-> Ended(text, IF r.threw THEN "rejected" ELSE "returned", u0, r.u,
                        paths \cup {"fallback"})]

\* copyToClipboard(text) up to its first await or its end:
\* o1 and o2 are the browser's answers to the fallback and to its retry
copyToClipboard(u, text, o1, o2) ==
    IF ~Truthy(text)
    THEN LET u1 == showToast(u, NoPhoneFound, "error")
         IN  [u |-> u1, awaits |-> FALSE, call |-> Ended(text, "returned", u, u1, {})]
    ELSE IF secure
    THEN [u |-> u, awaits |-> TRUE, call |-> NoCall]
    ELSE LET r == fallbackCopyToClipboard(u, text.s, o1)
         IN  IF r.threw
             THEN CopyCatch(u, r.u, text, o2, {})
             ELSE [u |-> r.u, awaits |-> FALSE,
                   call |-> Ended(text, "returned", u, r.u, {"fallback"})]

\* copyToClipboard after clipboard.writeText resolved
CopyResolved(u, text) ==
    LET u1 == showToast(u, Copied(text.s), "success")
    IN  [u |-> u1, awaits |-> FALSE, call |-> Ended(text, "returned", u, u1, {"primary"})]

\* copyToClipboard after clipboard.writeText rejected
CopyRejected(u, text, o) == CopyCatch(u, u, text, o, {"primary"})

\* The page state after a handler that left it as u
SetUi(u) ==
    /\ toast' = u.toast
    /\ toastTimeout' = u.toastTimeout
    /\ timers' = u.timers
    /\ nextTimerId' = u.nextTimerId
    /\ requests' = u.requests
    /\ bodyTextAreas' = u.bodyTextAreas

\* A copyToClipboard call has run as far as r says
AfterCopy(r, text) ==
    /\ SetUi(r.u)
    /\ started' = started + 1
    /\ pending' = IF r.awaits THEN Append(pending, text) ELSE pending
    /\ lastCall' = IF r.awaits THEN lastCall ELSE r.call

Throwing == {"appendThrows", "focusThrows", "selectThrows"}

\* The browser's answers that a copyToClipboard(text) call can meet before its
\* first await: none when it shows the failure or awaits the clipboard, one
\* when the fallback returns, two when the fallback throws and is retried
CopyAnswers(text) ==
    IF ~Truthy(text) \/ secure
    THEN {<<"copied", "copied">>}
    ELSE {<<o1, "copied">> : o1 \in FallbackOutcomes \ Throwing}
         \cup (Throwing \X FallbackOutcomes)

NoExtract == [btn |-> 0, value |-> Null, notified |-> 0]

\* The first click listener, on a copy button
CopyClick(n) ==
    /\ HasClass(n, "copy-btn")
    /\ started < MaxCalls
    /\ LET phoneNumber == PhoneNumberOf[n]
       IN  /\ IF Truthy(phoneNumber)
              THEN \E o \in CopyAnswers(phoneNumber) :
                      AfterCopy(copyToClipboard(Ui, phoneNumber, o[1], o[2]), phoneNumber)
              ELSE UNCHANGED <<toast, toastTimeout, timers, nextTimerId, requests,
                               bodyTextAreas, started, pending, lastCall>>
           /\ lastExtract' = [btn |-> n, value |-> phoneNumber,
                              notified |-> requests' - requests]
    /\ UNCHANGED <<lastHide, envVars, logVars, ret>>

\* Arguments given to window.copyToClipboard by inline handlers of the page
DirectTexts == {Null, Str(<<>>), Str(<<"1", "0", "0">>)}

\* window.copyToClipboard(text)
DirectCopy(text) ==
    /\ started < MaxCalls
    /\ \E o \in CopyAnswers(text) :
          AfterCopy(copyToClipboard(Ui, text, o[1], o[2]), text)
    /\ lastExtract' = NoExtract
    /\ UNCHANGED <<lastHide, envVars, logVars, ret>>

Remove(seq, i) == SubSeq(seq, 1, i - 1) \o SubSeq(seq, i + 1, Len(seq))

\* clipboard.writeText settles and the awaiting call goes on
FinishCopy(i, r) ==
    /\ SetUi(r.u)
    /\ pending' = Remove(pending, i)
    /\ lastCall' = r.call
    /\ lastExtract' = NoExtract
    /\ UNCHANGED <<started, lastHide, envVars, logVars, ret>>

WriteTextResolved(i) ==
    /\ i \in 1..Len(pending)
    /\ FinishCopy(i, CopyResolved(Ui, pending[i]))

WriteTextRejected(i) ==
    /\ i \in 1..Len(pending)
    /\ \E o \in FallbackOutcomes : FinishCopy(i, CopyRejected(Ui, pending[i], o))

----------------------------------------------------------------------------
(* Timers and keys *)

Min(a, b) == IF a <= b THEN a ELSE b

NoHide == [by |-> 0, of |-> 0, shown |-> FALSE]

\* Time passes, no further than the next timer that is due
Advance ==
    /\ timers # {}
    /\ \A t \in timers : t.remaining > 0
    /\ LET next == CHOOSE r \in {t.remaining : t \in timers} :
                      \A t \in timers : r <= t.remaining
           d == Min(Quantum, next)
       IN  timers' = {[t EXCEPT !.remaining = @ - d] : t \in timers}
    /\ lastExtract' = NoExtract
    /\ UNCHANGED <<toast, toastTimeout, nextTimerId, requests, lastHide, pending,
                   started, lastCall, bodyTextAreas, envVars, logVars, ret>>

\* The 3 s callback of showToast: the exit animation and the 300 ms timer
HideTimerFires(t) ==
    /\ t \in timers
    /\ t.kind = "hide"
    /\ t.remaining = 0
    /\ toast' = [toast EXCEPT !.animation = "slideOutRight"]
    /\ timers' = (timers \ {t}) \cup
                 {[id |-> nextTimerId, kind |-> "remove", remaining |-> ExitDelay,
                   req |-> t.req]}
    /\ nextTimerId' = nextTimerId + 1
    /\ lastExtract' = NoExtract
    /\ UNCHANGED <<toastTimeout, requests, lastHide, pending, started, lastCall,
                   bodyTextAreas, envVars, logVars, ret>>

\* The 300 ms callback: display = 'none'
RemoveTimerFires(t) ==
    /\ t \in timers
    /\ t.kind = "remove"
    /\ t.remaining = 0
    /\ toast' = [toast EXCEPT !.display = "none"]
    /\ timers' = timers \ {t}
    /\ lastHide' = [by |-> t.req, of |-> toast.req, shown |-> toast.display = "block"]
    /\ lastExtract' = NoExtract
    /\ UNCHANGED <<toastTimeout, nextTimerId, requests, pending, started, lastCall,
                   bodyTextAreas, envVars, logVars, ret>>

Keys == {"Escape", "Enter", " "}

\* handleKeyboardNavigation(e): Escape hides the toast; Enter or Space on a copy
\* button clicks it, which runs the click listener
KeyDown(key, n) ==
    \/ /\ key = "Escape"
       /\ toast' = IF hasToast /\ toast.display = "block"
                   THEN [toast EXCEPT !.display = "none"]
                   ELSE toast
       /\ lastExtract' = NoExtract
       /\ UNCHANGED <<toastTimeout, timers, nextTimerId, requests, lastHide, pending,
                      started, lastCall, bodyTextAreas, envVars, logVars, ret>>
    \/ /\ key \in {"Enter", " "}
       /\ CopyClick(n)

----------------------------------------------------------------------------
(* The usage log in localStorage *)

\* existingData.slice(-50)
MaxEntries == 50

\* data.slice(-10)
RecentN == 10

\* .slice(0, 5)
TopN == 5

\* navigator.userAgent
UserAgent == <<"U", "A">>

\* String.prototype.substring(0, n)
Substring0(str, n) == SubSeq(str, 1, Min(n, Len(str)))

\* Array.prototype.slice(-n)
SliceLast(seq, n) == SubSeq(seq, IF Len(seq) > n THEN Len(seq) - n + 1 ELSE 1, Len(seq))

\* Array.prototype.slice(0, n)
SliceFirst(seq, n) == SubSeq(seq, 1, Min(n, Len(seq)))

RECURSIVE Reverse(_)
Reverse(seq) ==
    IF seq = <<>> THEN <<>> ELSE Append(Reverse(Tail(seq)), Head(seq))

\* The record storeUsageData pushes
UsageRecord(type, value, timestamp) ==
    [type |-> type, value |-> value, timestamp |-> timestamp,
     userAgent |-> Substring0(UserAgent, 100)]

\* Array elements that are not records: JSON null and a JSON number
NullItem == [type |-> "#null", value |-> <<>>, timestamp |-> 0, userAgent |-> <<>>]

NumberItem == [type |-> "#number", value |-> <<>>, timestamp |-> 0, userAgent |-> <<>>]

\* JSON values: an array of items, or null, a number, a string, an object
Json(k, items) == [k |-> k, items |-> items]

JArray(items) == Json("array", items)

\* The stored item: absent (getItem returns null), the empty string, the text of
\* a JSON value, or text that is not JSON
NoItem == [t |-> "none", json |-> Json("null", <<>>)]

EmptyText == [t |-> "empty", json |-> Json("null", <<>>)]

Garbage == [t |-> "garbage", json |-> Json("null", <<>>)]

\* JSON.stringify(v)
JSONstringify(v) == [t |-> "text", json |-> v]

\* JSON.parse(text): the value, or a SyntaxError
JSONparse(text) ==
    IF text.t = "text"
    THEN [threw |-> FALSE, v |-> text.json]
    ELSE [threw |-> TRUE, v |-> Json("null", <<>>)]

\* localStorage.getItem(key) || '[]'
ItemOrEmptyArray(item) ==
    IF item.t \in {"none", "empty"} THEN JSONstringify(JArray(<<>>)) ELSE item

\* What localStorage does in one storeUsageData call
StorageAnswers == {"ok", "getThrows", "setThrows"}

\* the try block with slice(0, 50) in place of slice(-50)
StoreTryKeepsOldest(item, type, value, timestamp, io) ==
    LET parsed == JSONparse(ItemOrEmptyArray(item))
        existingData == parsed.v
        pushed == Append(existingData.items, UsageRecord(type, value, timestamp))
        recentData == SliceFirst(pushed, MaxEntries)
    IN  IF io = "getThrows" \/ parsed.threw \/ existingData.k # "array"
           \/ io = "setThrows"
        THEN [item |-> item, threw |-> TRUE]
        ELSE [item |-> JSONstringify(JArray(recentData)), threw |-> FALSE]

\* the try block of storeUsageData: the item afterwards and whether it threw
StoreTry(item, type, value, timestamp, io) ==
    LET parsed == JSONparse(ItemOrEmptyArray(item))
        existingData == parsed.v
        pushed == Append(existingData.items, UsageRecord(type, value, timestamp))
        recentData == SliceLast(pushed, MaxEntries)
    IN  IF io = "getThrows" \/ parsed.threw \/ existingData.k # "array"
           \/ io = "setThrows"
        THEN [item |-> item, threw |-> TRUE]
        ELSE [item |-> JSONstringify(JArray(recentData)), threw |-> FALSE]

\* storeUsageData with a catch block that throws again
storeUsageDataRethrows(item, type, value, timestamp, io) ==
    LET r == StoreTry(item, type, value, timestamp, io)
    IN  [item |-> r.item, outcome |-> IF r.threw THEN "raised" ELSE "stored"]

\* storeUsageData(type, value): the catch block only logs
storeUsageData(item, type, value, timestamp, io) ==
    LET r == StoreTry(item, type, value, timestamp, io)
    IN  [item |-> r.item, outcome |-> IF r.threw THEN "swallowed" ELSE "stored"]

\* phoneNumber.replace(/[^\d-]/g, '')
RECURSIVE CleanNumber(_)
CleanNumber(str) ==
    IF str = <<>> THEN <<>>
    ELSE IF Head(str) \in Digits \cup {"-"}
    THEN <<Head(str)>> \o CleanNumber(Tail(str))
    ELSE CleanNumber(Tail(str))

----------------------------------------------------------------------------
(* Statistics *)

DigitChars == <<"0", "1", "2", "3", "4", "5", "6", "7", "8", "9">>

DigitValue(c) == CHOOSE d \in 0..9 : DigitChars[d + 1] = c

\* Lexicographic order of two digit strings of the same length
RECURSIVE LexLess(_, _)
LexLess(a, b) ==
    IF a = <<>> THEN FALSE
    ELSE IF Head(a) # Head(b) THEN DigitValue(Head(a)) < DigitValue(Head(b))
    ELSE LexLess(Tail(a), Tail(b))

\* a < b for canonical decimal numerals
NumLess(a, b) == Len(a) < Len(b) \/ (Len(a) = Len(b) /\ LexLess(a, b))

\* 2^32 - 2, the largest array index
MaxArrayIndex == <<"4", "2", "9", "4", "9", "6", "7", "2", "9", "4">>

\* A property key that is an array index: a canonical numeral up to 2^32 - 2.
\* Own property keys are listed with these first, in ascending numeric order.
IsArrayIndex(key) ==
    /\ key # <<>>
    /\ \A i \in 1..Len(key) : key[i] \in Digits
    /\ Len(key) = 1 \/ Head(key) # "0"
    /\ ~NumLess(MaxArrayIndex, key)

\* The keys of counts in the order the forEach of getMostUsed creates them
RECURSIVE CreationOrder(_, _)
CreationOrder(data, seen) ==
    IF data = <<>> THEN seen
    ELSE CreationOrder(Tail(data),
                       IF \E i \in 1..Len(seen) : seen[i] = Head(data).value
                       THEN seen
                       ELSE Append(seen, Head(data).value))

RECURSIVE AscendingIndices(_)
AscendingIndices(S) ==
    IF S = {} THEN <<>>
    ELSE LET m == CHOOSE x \in S : \A y \in S : x = y \/ NumLess(x, y)
         IN  <<m>> \o AscendingIndices(S \ {m})

IsNotArrayIndex(key) == ~IsArrayIndex(key)

\* Own property keys listed in creation order, array indices not set apart
OwnKeysAsCreated(created) == created

\* The own property keys of an object whose string keys were created in this order
OwnKeys(created) ==
    AscendingIndices({created[i] : i \in {j \in 1..Len(created) : IsArrayIndex(created[j])}})
    \o SelectSeq(created, IsNotArrayIndex)

CountOf(data, key) == Cardinality({i \in 1..Len(data) : data[i].value = key})

\* Object.entries(counts)
ObjectEntries(data) ==
    LET keys == OwnKeys(CreationOrder(data, <<>>))
    IN  [i \in 1..Len(keys) |-> [number |-> keys[i], count |-> CountOf(data, keys[i])]]

\* One step of a stable sort with the comparator (a, b) => b - a: e goes behind
\* every entry that does not count less
InsertByCount(sorted, e) ==
    LET ahead == {i \in 1..Len(sorted) : sorted[i].count >= e.count}
        k == Cardinality(ahead)
    IN  SubSeq(sorted, 1, k) \o <<e>> \o SubSeq(sorted, k + 1, Len(sorted))

RECURSIVE SortByCount(_, _)
SortByCount(entries, sorted) ==
    IF entries = <<>> THEN sorted
    ELSE SortByCount(Tail(entries), InsertByCount(sorted, Head(entries)))

\* getMostUsed(phoneCallData)
getMostUsed(phoneCallData) ==
    SliceFirst(SortByCount(ObjectEntries(phoneCallData), <<>>), TopN)

IsPhoneCall(item) == item.type = "phone_call"

IsResourceAccess(item) == item.type = "resource_access"

StatsResult(t, total, phones, resources, mostUsed, recent) ==
    [t |-> t, totalUsage |-> total, phoneCallsCount |-> phones,
     resourceAccessCount |-> resources, mostUsedNumbers |-> mostUsed,
     recentActivity |-> recent]

\* No call of getUsageStats has returned since the last change
NoRet == StatsResult("none", 0, 0, 0, <<>>, <<>>)

\* the value null
NullRet == StatsResult("null", 0, 0, 0, <<>>, <<>>)

\* the try block of getUsageStats: reading length or filter of a value that has
\* none, or type of a null element, throws
StatsTry(item) ==
    LET parsed == JSONparse(ItemOrEmptyArray(item))
        data == parsed.v.items
    IN  IF parsed.threw \/ parsed.v.k # "array"
           \/ \E i \in 1..Len(data) : data[i] = NullItem
        THEN [threw |-> TRUE, stats |-> NullRet]
        ELSE [threw |-> FALSE,
              stats |-> StatsResult("stats", Len(data),
                                    Len(SelectSeq(data, IsPhoneCall)),
                                    Len(SelectSeq(data, IsResourceAccess)),
                                    getMostUsed(SelectSeq(data, IsPhoneCall)),
                                    Reverse(SliceLast(data, RecentN)))]

\* getUsageStats with a catch block that returns the empty statistics
getUsageStatsEmptyOnError(item) ==
    LET r == StatsTry(item)
    IN  IF r.threw THEN StatsResult("stats", 0, 0, 0, <<>>, <<>>) ELSE r.stats

\* getUsageStats(): the catch block returns null
getUsageStats(item) ==
    LET r == StatsTry(item)
    IN  IF r.threw THEN NullRet ELSE r.stats

\* window.getEmergencyStats()
GetEmergencyStats ==
    /\ ret' = getUsageStats(stored)
    /\ UNCHANGED <<logVars, uiVars, envVars>>

\* Number of storage failures injected in a run
MaxFaults == 1

Faults == Cardinality({i \in 1..Len(events) : events[i].io # "ok"})

\* A tracked event goes through storeUsageData
Track(type, value, io) ==
    /\ io # "ok" => Faults < MaxFaults
    /\ LET r == storeUsageData(stored, type, value, now, io)
       IN  /\ stored' = r.item
           /\ lastStore' = [outcome |-> r.outcome, io |-> io]
    /\ events' = Append(events, [rec |-> UsageRecord(type, value, now), io |-> io])
    /\ now' = now + 1
    /\ ret' = NoRet
    /\ UNCHANGED <<stored0, uiVars, envVars>>

\* The second click listener and trackPhoneCall
PhoneClick(n, io) ==
    /\ HasClass(n, "phone-btn")
    /\ LET phoneNumber == OrElse(Str(TextContent(n)), Str(Document[n].href))
       IN  Track("phone_call", CleanNumber(phoneNumber.s), io)

\* The third click listener and trackResourceAccess
ResourceClick(n, io) ==
    /\ HasClass(n, "resource-link")
    /\ Track("resource_access", Document[n].href, io)

----------------------------------------------------------------------------
(* Specifications *)

InitUi ==
    /\ toast = [text |-> Msg("", <<>>), className |-> "", display |-> "none",
                animation |-> "", req |-> 0]
    /\ toastTimeout = 0
    /\ timers = {}
    /\ nextTimerId = 1
    /\ requests = 0
    /\ lastHide = NoHide
    /\ pending = <<>>
    /\ started = 0
    /\ lastCall = NoCall
    /\ bodyTextAreas = 0
    /\ lastExtract = NoExtract

InitLog(items) ==
    /\ stored \in items
    /\ stored0 = stored
    /\ events = <<>>
    /\ now = 1
    /\ lastStore = [outcome |-> "none", io |-> "ok"]
    /\ ret = NoRet

\* The copy buttons, the clipboard, the toast and the keys
Init ==
    /\ InitUi
    /\ hasToast \in BOOLEAN
    /\ secure \in BOOLEAN
    /\ InitLog({NoItem})

\* The elements that have the focus when a key goes down
KeyTargets == {3, 9}

Next ==
    \/ \E n \in Nodes : CopyClick(n)
    \/ \E text \in DirectTexts : DirectCopy(text)
    \/ \E i \in 1..MaxCalls : WriteTextResolved(i)
    \/ \E i \in 1..MaxCalls : WriteTextRejected(i)
    \/ \E key \in Keys, n \in KeyTargets : KeyDown(key, n)
    \/ Advance
    \/ \E t \in timers : HideTimerFires(t)
    \/ \E t \in timers : RemoveTimerFires(t)

Spec == Init /\ [][Next]_vars

\* An empty log: no item, the empty string, or the text of an empty array
EmptyItems == {NoItem, EmptyText, JSONstringify(JArray(<<>>))}

\* Items found in localStorage when the page loads
LogItems ==
    EmptyItems \cup
    {Garbage,
     JSONstringify(Json("null", <<>>)), JSONstringify(Json("number", <<>>)),
     JSONstringify(Json("string", <<>>)), JSONstringify(Json("object", <<>>)),
     JSONstringify(JArray(<<NumberItem, NullItem>>))}

\* Number of tracked events in a run of the log
MaxEvents == 52

\* Number of resource clicks in a run of the log
MaxResourceEvents == 1

ResourceEvents ==
    Cardinality({i \in 1..Len(events) : events[i].rec.type = "resource_access"})

\* The usage log over a long run of clicks, the storage working
InitLogSpec ==
    /\ InitUi
    /\ hasToast = TRUE
    /\ secure = TRUE
    /\ InitLog(EmptyItems)

NextLog ==
    \/ /\ Len(events) < MaxEvents
       /\ PhoneClick(14, "ok")
    \/ /\ Len(events) < MaxEvents
       /\ ResourceEvents < MaxResourceEvents
       /\ ResourceClick(20, "ok")

SpecLog == InitLogSpec /\ [][NextLog]_vars

\* A log left by an earlier visit
EarlierLog ==
    << UsageRecord("phone_call", <<"9", "8">>, 0),
       UsageRecord("phone_call", <<"0", "0", "7">>, 0),
       UsageRecord("phone_call", <<"4", "2", "9", "4", "9", "6", "7", "2", "9", "5">>, 0),
       UsageRecord("phone_call", <<"1", "0", "3">>, 0),
       UsageRecord("phone_call", <<"9", "8">>, 0) >>

StatsItems ==
    LogItems \cup {JSONstringify(JArray(EarlierLog)),
                   JSONstringify(JArray(<<NumberItem, NumberItem>>))}

\* Number of tracked events in a run of the statistics
MaxStatsEvents == 4

StatsButtons == {2, 4, 21}

\* Short logs of many kinds, the storage failing at times, and the statistics
InitStats ==
    /\ InitUi
    /\ hasToast = TRUE
    /\ secure = TRUE
    /\ InitLog(StatsItems)

NextStats ==
    \/ /\ Len(events) < MaxStatsEvents
       /\ \E n \in StatsButtons, io \in StorageAnswers : PhoneClick(n, io)
    \/ /\ Len(events) < MaxStatsEvents
       /\ \E io \in StorageAnswers : ResourceClick(20, io)
    \/ GetEmergencyStats

SpecStats == InitStats /\ [][NextStats]_vars

----------------------------------------------------------------------------
(* The usage log: C1, C7 *)

LogItemsNow == stored.json.items

\* C1: starting from an empty log and with working storage, after N tracked
\* events the log holds exactly the last min(N, 50) of them, oldest first; its
\* length never exceeds 50.
C1_LogHoldsLastFifty ==
    (stored0 \in EmptyItems /\ \A i \in 1..Len(events) : events[i].io = "ok") =>
        LET n == Len(events)
            k == IF n < 50 THEN n ELSE 50
        IN  IF n = 0
            THEN stored = stored0
            ELSE /\ stored.t = "text"
                 /\ stored.json.k = "array"
                 /\ Len(LogItemsNow) = k
                 /\ Len(LogItemsNow) <= 50
                 /\ \A i \in 1..k : LogItemsNow[i] = events[n - k + i].rec

\* C1 witness: more than 50 events were tracked, and the oldest was evicted
C1_Witness ==
    /\ Len(events) = 52
    /\ Len(LogItemsNow) = 50
    /\ LogItemsNow[1] = events[3].rec
    /\ \E i \in 1..Len(events) : events[i].rec.type = "resource_access"

\* The stored item cannot be read as an array
Unreadable(item) ==
    item.t = "garbage" \/ (item.t = "text" /\ item.json.k # "array")

\* C7: storeUsageData never raises; when reading, parsing or writing fails, the
\* stored item stays as it was and no notification is shown.
C7_StoreFailureIsSilentNoOp ==
    [][Len(events') > Len(events) =>
          /\ lastStore'.outcome \in {"stored", "swallowed"}
          /\ (lastStore'.io # "ok" \/ Unreadable(stored)) =>
                /\ lastStore'.outcome = "swallowed"
                /\ stored' = stored
                /\ toast' = toast
                /\ requests' = requests]_vars

\* C7 witness: a write that met a full quota left a non-empty log as it was
C7_Witness ==
    /\ lastStore.outcome = "swallowed"
    /\ lastStore.io = "setThrows"
    /\ stored.t = "text"
    /\ stored.json.k = "array"
    /\ Len(LogItemsNow) > 0

----------------------------------------------------------------------------
(* The statistics: C4, C5 *)

EmptyStats == StatsResult("stats", 0, 0, 0, <<>>, <<>>)

\* The item is not the text of an array of records
Malformed(item) ==
    \/ Unreadable(item)
    \/ /\ item.t = "text"
       /\ \E i \in 1..Len(item.json.items) :
             item.json.items[i] \in {NullItem, NumberItem}

\* C4 as claimed: zero counts and empty lists on an empty log, and the same
\* empty result, without raising, on malformed content.
C4_Claimed ==
    ret.t # "none" =>
        /\ ret.t # "raised"
        /\ stored \in EmptyItems => ret = EmptyStats
        /\ Malformed(stored) => ret = EmptyStats

\* C4 as the code has it: zero counts and empty lists on an empty log; never
\* raises; null on text that is not JSON, on JSON that is not an array and on an
\* array with a null element; an array of numbers is counted like any log.
C4_NullOnMalformed ==
    ret.t # "none" =>
        /\ ret.t # "raised"
        /\ stored \in EmptyItems => ret = EmptyStats
        /\ (Unreadable(stored)
            \/ (stored.t = "text" /\ \E i \in 1..Len(LogItemsNow) : LogItemsNow[i] = NullItem))
           => ret = NullRet
        /\ (stored.t = "text" /\ stored.json.k = "array" /\ LogItemsNow # <<>>
            /\ \A i \in 1..Len(LogItemsNow) : LogItemsNow[i] = NumberItem)
           => /\ ret.t = "stats"
              /\ ret.totalUsage = Len(LogItemsNow)
              /\ ret.phoneCallsCount = 0
              /\ ret.resourceAccessCount = 0
              /\ ret.mostUsedNumbers = <<>>

\* C4 witness: getUsageStats has returned null for text that is not JSON
C4_Witness == ret = NullRet /\ stored = Garbage

\* The phone_call records of the stored log
PhoneCalls == SelectSeq(LogItemsNow, IsPhoneCall)

\* Position of the first phone_call record with this value
FirstCall(value) ==
    CHOOSE i \in 1..Len(PhoneCalls) :
        /\ PhoneCalls[i].value = value
        /\ \A j \in 1..(i - 1) : PhoneCalls[j].value # value

Calls(value) == Cardinality({i \in 1..Len(PhoneCalls) : PhoneCalls[i].value = value})

CalledNumbers == {PhoneCalls[i].value : i \in 1..Len(PhoneCalls)}

Ranked == {ret.mostUsedNumbers[i].number : i \in 1..Len(ret.mostUsedNumbers)}

\* C5 as claimed: descending counts, and of two numbers with equal counts the
\* one recorded first is ranked first.
C5_Claimed ==
    ret.t = "stats" =>
        \A i, j \in 1..Len(ret.mostUsedNumbers) :
            i < j =>
                LET a == ret.mostUsedNumbers[i]
                    b == ret.mostUsedNumbers[j]
                IN  /\ a.count >= b.count
                    /\ a.count = b.count => FirstCall(a.number) < FirstCall(b.number)

\* The order of two numbers with equal counts
TieOrder(a, b) ==
    \/ IsArrayIndex(a) /\ ~IsArrayIndex(b)
    \/ IsArrayIndex(a) /\ IsArrayIndex(b) /\ NumLess(a, b)
    \/ ~IsArrayIndex(a) /\ ~IsArrayIndex(b) /\ FirstCall(a) < FirstCall(b)

\* C5 as the code has it: the ranking lists at most five numbers with their
\* counts, in descending order of count; of two numbers with equal counts, one
\* that is an array index (a canonical numeral up to 2^32 - 2, such as 100)
\* goes before one that is not, two array indices go in ascending numeric
\* order, and two others in the order they were first recorded; a number left
\* out would come after every number listed.
C5_TiesInKeyOrder ==
    ret.t = "stats" =>
        /\ Len(ret.mostUsedNumbers) = (IF Cardinality(CalledNumbers) < 5
                                       THEN Cardinality(CalledNumbers) ELSE 5)
        /\ \A i \in 1..Len(ret.mostUsedNumbers) :
              /\ ret.mostUsedNumbers[i].number \in CalledNumbers
              /\ ret.mostUsedNumbers[i].count = Calls(ret.mostUsedNumbers[i].number)
        /\ \A i, j \in 1..Len(ret.mostUsedNumbers) :
              i < j =>
                  LET a == ret.mostUsedNumbers[i]
                      b == ret.mostUsedNumbers[j]
                  IN  \/ a.count > b.count
                      \/ a.count = b.count /\ TieOrder(a.number, b.number)
        /\ \A w \in CalledNumbers \ Ranked :
              \A i \in 1..Len(ret.mostUsedNumbers) :
                  LET a == ret.mostUsedNumbers[i]
                  IN  \/ a.count > Calls(w)
                      \/ a.count = Calls(w) /\ TieOrder(a.number, w)

\* C5 witness: two numbers with equal counts are ranked against the order in
\* which they were first recorded, and a sixth number is left out
C5_Witness ==
    /\ ret.t = "stats"
    /\ Cardinality(CalledNumbers) > 5
    /\ \E i, j \in 1..Len(ret.mostUsedNumbers) :
          /\ i < j
          /\ ret.mostUsedNumbers[i].count = ret.mostUsedNumbers[j].count
          /\ FirstCall(ret.mostUsedNumbers[i].number) > FirstCall(ret.mostUsedNumbers[j].number)

----------------------------------------------------------------------------
(* Extraction: C8 *)

\* m is the element just before b among the children of b's parent
JustBefore(m, b) ==
    /\ m \in Nodes
    /\ m < b
    /\ Document[m].parent = Document[b].parent
    /\ ~\E k \in Nodes : m < k /\ k < b /\ Document[k].parent = Document[b].parent

\* The ancestors of b, b itself among them
RECURSIVE Ancestors(_)
Ancestors(b) == IF b = 0 THEN {} ELSE {b} \cup Ancestors(Document[b].parent)

\* l is the nearest list container around b
NearestList(l, b) ==
    /\ l \in Ancestors(b)
    /\ "phone-list" \in Document[l].classes
    /\ ~\E k \in Ancestors(b) :
          "phone-list" \in Document[k].classes /\ k # l /\ l \in Ancestors(k)

Within(l, class) == {n \in Nodes : n # l /\ l \in Ancestors(n) /\ class \in Document[n].classes}

\* p is the phone control of list l paired by position with copy control b
PairedByIndex(p, l, b) ==
    /\ p \in Within(l, "phone-btn")
    /\ Cardinality({q \in Within(l, "phone-btn") : q < p})
         = Cardinality({c \in Within(l, "copy-btn") : c < b})

----------------------------------------------------------------------------
(* Copy and notifications: C2, C6, C10 *)

\* C2: one copyToClipboard call with a non-empty text ends with exactly one
\* notification, whichever way the clipboard answers.
C2_ExactlyOneNotification ==
    (lastCall.how # "none" /\ Truthy(lastCall.text)) => lastCall.notified = 1

\* C6: a copy action without a phone number (a click on a copy control for
\* which the extraction yields null or the empty string, or a direct call with
\* empty or missing text) shows a failure notification, raises nothing and
\* attempts neither copy path.
C6_MissingInputNotifies ==
    /\ (lastExtract.btn # 0 /\ ~Truthy(lastExtract.value)) =>
          /\ lastExtract.notified = 1
          /\ hasToast => toast.text = NoPhoneFound /\ toast.className = "error"
    /\ (lastCall.how # "none" /\ ~Truthy(lastCall.text)) =>
          /\ lastCall.how = "returned"
          /\ lastCall.notified = 1
          /\ lastCall.paths = {}

\* C10: when a call of fallbackCopyToClipboard has ended, the textarea it
\* created is no longer attached, however the call ended.
C10_TextAreaRemoved == bodyTextAreas = 0

----------------------------------------------------------------------------
(* The toast timers: C3, C9 *)

HideTimers(ts) == {t \in ts : t.kind = "hide"}

\* C3: when a notification is requested while the 3 s timer of the one before
\* is pending, the new message is the one shown, that timer is cancelled and
\* exactly one 3 s hide timer is pending, the new request's (and no other timer
\* at all unless an exit transition was already running); a 3 s timer that
\* fires is always the latest request's.
C3_SecondReplacesFirst ==
    [][/\ (requests' = requests + 1 /\ hasToast
           /\ \E t \in timers : t.kind = "hide" /\ t.id = toastTimeout) =>
             /\ toast'.req = requests'
             /\ toast'.display = "block"
             /\ \A t \in timers' : t.id # toastTimeout /\ t.req # toast.req
             /\ \E t \in timers' :
                   /\ HideTimers(timers') = {t}
                   /\ t.req = requests'
                   /\ t.remaining = ToastDelay
             /\ HideTimers(timers) = timers => Cardinality(timers') = 1
       /\ \A t \in HideTimers(timers) :
             (requests' = requests /\ ~\E r \in timers' : r.id = t.id) =>
                 t.req = requests /\ t.remaining = 0]_vars

\* C3 witness: two notifications, the second before the first's timer fired
\* (no exit timer was ever created), the second shown and one timer pending
C3_Witness ==
    /\ requests = 2
    /\ nextTimerId = 3
    /\ toast.req = 2
    /\ toast.display = "block"
    /\ Cardinality(timers) = 1

\* C9: at most one hide-related timer is pending at any time, and a
\* notification is hidden only by the timer its own request scheduled.
C9_TimersNeverStack ==
    /\ Cardinality(timers) <= 1
    /\ lastHide.shown => lastHide.by = lastHide.of

====
